---------------------------- MODULE Spec2Model ----------------------------
(***************************************************************************)
(* Radiation zone classification (radiation_mapper.py) and the energy-     *)
(* dependent attenuation model (mu_values.py), with the dashboard wrapper   *)
(* of app.py.                                                              *)
(*                                                                         *)
(* Numbers.  Python floats are modelled as fixed-point integers: the       *)
(* integer n stands for the real n / SCALE.  np.log and np.exp are          *)
(* computed by range reduction and a truncated series and round to the      *)
(* nearest representable value, as the floating-point routines do at their  *)
(* own resolution.  The non-finite floats (nan, +inf, -inf) are carried by  *)
(* a class tag next to the value.                                           *)
(***************************************************************************)
EXTENDS Integers, Sequences, FiniteSets

----------------------------------------------------------------------------
(* Fixed-point arithmetic                                                  *)

\* one unit of the fixed-point representation is 1/SCALE
SCALE == 10^4

\* a / b rounded to the nearest integer (b > 0), halves rounded up
DivR(a, b) == (2 * a + b) \div (2 * b)

\* x * y for fixed-point x, y
MulFx(x, y) == DivR(x * y, SCALE)

\* x / y for fixed-point x, y (y > 0)
DivFx(x, y) == DivR(x * SCALE, y)

Abs(a) == IF a < 0 THEN -a ELSE a

\* ln(2) in fixed point
Ln2 == 6931

\* the binary exponent k with 2^k <= v/SCALE < 2^(k+1), v > 0
RECURSIVE Log2Floor(_)
Log2Floor(v) ==
    IF v >= 2 * SCALE THEN Log2Floor(v \div 2) + 1
    ELSE IF v < SCALE THEN Log2Floor(2 * v) - 1
    ELSE 0

\* np.log of a positive finite fixed-point number:
\* v = m * 2^k with 1 <= m < 2, ln m = 2 atanh((m-1)/(m+1))
LnFx(v) ==
    LET k  == Log2Floor(v)
        m  == IF k >= 0 THEN DivR(v, 2^k) ELSE v * 2^(-k)
        z  == DivFx(m - SCALE, m + SCALE)
        z2 == MulFx(z, z)
        p4 == DivR(SCALE, 9)
        p3 == DivR(SCALE, 7) + MulFx(z2, p4)
        p2 == DivR(SCALE, 5) + MulFx(z2, p3)
        p1 == DivR(SCALE, 3) + MulFx(z2, p2)
        p0 == SCALE + MulFx(z2, p1)
    IN  2 * MulFx(z, p0) + k * Ln2

\* np.exp of a finite fixed-point number:
\* w = k ln 2 + r with |r| <= ln(2)/2, e^r by its Taylor series
ExpFx(w) ==
    LET k  == DivR(w, Ln2)
        r  == w - k * Ln2
        p6 == SCALE + DivR(r, 6)
        p5 == SCALE + DivR(r * p6, 5 * SCALE)
        p4 == SCALE + DivR(r * p5, 4 * SCALE)
        p3 == SCALE + DivR(r * p4, 3 * SCALE)
        p2 == SCALE + DivR(r * p3, 2 * SCALE)
        p1 == SCALE + MulFx(r, p2)
    IN  IF k >= 0 THEN p1 * 2^k ELSE DivR(p1, 2^(-k))

----------------------------------------------------------------------------
(* Floats: a class tag and, for a finite float, its fixed-point value      *)

Fin(n) == [cls |-> "fin", v |-> n]
NaN    == [cls |-> "nan", v |-> 0]
PInf   == [cls |-> "pinf", v |-> 0]
NInf   == [cls |-> "ninf", v |-> 0]

\* np.log of a float: log(0) = -inf, log(x < 0) = nan, log(inf) = inf
NpLog(x) ==
    IF x.cls = "fin" THEN
        IF x.v > 0 THEN Fin(LnFx(x.v))
        ELSE IF x.v = 0 THEN NInf
        ELSE NaN
    ELSE IF x.cls = "pinf" THEN PInf
    ELSE NaN

\* np.exp of a float
NpExp(x) ==
    IF x.cls = "fin" THEN Fin(ExpFx(x.v))
    ELSE IF x.cls = "pinf" THEN PInf
    ELSE IF x.cls = "ninf" THEN Fin(0)
    ELSE NaN

----------------------------------------------------------------------------
(* What a call produces                                                    *)

NoRet         == [kind |-> "none",  val |-> 0, zone |-> "", color |-> "", err |-> ""]
Value(n)      == [kind |-> "value", val |-> n, zone |-> "", color |-> "", err |-> ""]
NanRet        == [kind |-> "nan",   val |-> 0, zone |-> "", color |-> "", err |-> ""]
InfRet        == [kind |-> "inf",   val |-> 0, zone |-> "", color |-> "", err |-> ""]
Raise(e)      == [kind |-> "raise", val |-> 0, zone |-> "", color |-> "", err |-> e]
ZoneRet(z, c) == [kind |-> "zone",  val |-> 0, zone |-> z,  color |-> c,  err |-> ""]

\* a Python float result of the float x
FloatRet(x) ==
    IF x.cls = "fin" THEN Value(x.v)
    ELSE IF x.cls = "nan" THEN NanRet
    ELSE InfRet

----------------------------------------------------------------------------
(* mu_values.py: the material catalogue                                    *)

\* 0.001 in fixed point: the tables below are written in thousandths
Milli == SCALE \div 1000

Thousandths(seq) == [i \in DOMAIN seq |-> seq[i] * Milli]

\* tabulated photon energies, the same for every material
TabEnergies == Thousandths(<<100, 200, 500, 1000, 2000, 5000, 10000>>)

MATERIAL_DATA ==
    [concrete |->
        [energies_MeV |-> TabEnergies,
         mu_cm1 |-> Thousandths(<<402, 287, 211, 153, 116, 78, 59>>)],
     heavy_concrete |->
        [energies_MeV |-> TabEnergies,
         mu_cm1 |-> Thousandths(<<1029, 518, 319, 211, 164, 111, 87>>)],
     steel |->
        [energies_MeV |-> TabEnergies,
         mu_cm1 |-> Thousandths(<<2912, 1149, 662, 474, 336, 248, 236>>)],
     lead |->
        [energies_MeV |-> TabEnergies,
         mu_cm1 |-> Thousandths(<<62930, 11330, 1826, 805, 518, 483, 559>>)],
     bentonite_slurry |->
        [energies_MeV |-> TabEnergies,
         mu_cm1 |-> Thousandths(<<248, 199, 140, 103, 71, 44, 32>>)],
     borated_bentonite |->
        [energies_MeV |-> TabEnergies,
         mu_cm1 |-> Thousandths(<<257, 206, 145, 106, 74, 45, 33>>)],
     polyethylene |->
        [energies_MeV |-> TabEnergies,
         mu_cm1 |-> Thousandths(<<186, 138, 92, 69, 42, 27, 19>>)],
     earth_soil |->
        [energies_MeV |-> TabEnergies,
         mu_cm1 |-> Thousandths(<<308, 220, 161, 120, 89, 60, 45>>)]]

MATERIAL_KEYS == DOMAIN MATERIAL_DATA

\* log_E and log_mu of get_mu, one pair of sequences per material
LogTables ==
    [k \in MATERIAL_KEYS |->
        [log_E  |-> [i \in DOMAIN MATERIAL_DATA[k].energies_MeV |->
                        LnFx(MATERIAL_DATA[k].energies_MeV[i])],
         log_mu |-> [i \in DOMAIN MATERIAL_DATA[k].mu_cm1 |->
                        LnFx(MATERIAL_DATA[k].mu_cm1[i])]]]

\* np.searchsorted(x, x_new): the number of entries of x below x_new
SearchSorted(x, x_new) == Cardinality({i \in DOMAIN x : x[i] < x_new})

Clip(i, lo, hi) == IF i < lo THEN lo ELSE IF i > hi THEN hi ELSE i


\* mutant: kind='previous', the value at the segment's lower end
LinearCall_Previous(x, y, x_new) ==
    y[Clip(SearchSorted(x, x_new), 1, Len(x) - 1)]

\* interp1d(x, y, kind='linear') evaluated inside the table:
\* slope * (x_new - x_lo) + y_lo on the segment found by searchsorted
LinearCall(x, y, x_new) ==
    LET idx   == Clip(SearchSorted(x, x_new), 1, Len(x) - 1)
        lo    == idx          \* Python's 0-based idx - 1, as a 1-based index
        hi    == idx + 1
        slope == DivFx(y[hi] - y[lo], x[hi] - x[lo])
    IN  MulFx(slope, x_new - x[lo]) + y[lo]


\* mutant: fill_value='extrapolate', the end segments' slopes continued
Interp1d_Extrapolate(x, y, x_new) ==
    IF x_new.cls = "nan" THEN NaN
    ELSE IF x_new.cls = "ninf" THEN PInf
    ELSE IF x_new.cls = "pinf" THEN NInf
    ELSE Fin(LinearCall(x, y, x_new.v))

\* interp1d(..., bounds_error=False, fill_value=(y[0], y[-1])) at a float
Interp1d(x, y, x_new) ==
    IF x_new.cls = "nan" THEN NaN
    ELSE IF x_new.cls = "ninf" THEN Fin(y[1])
    ELSE IF x_new.cls = "pinf" THEN Fin(y[Len(y)])
    ELSE IF x_new.v < x[1] THEN Fin(y[1])
    ELSE IF x_new.v > x[Len(x)] THEN Fin(y[Len(y)])
    ELSE Fin(LinearCall(x, y, x_new.v))

UnknownMaterial == "ValueError: Unknown material"


\* mutant: an unknown key falls back to concrete instead of raising
get_mu_DefaultConcrete(material_key, energy_MeV) ==
    LET key    == IF material_key \in MATERIAL_KEYS THEN material_key ELSE "concrete"
        log_E  == LogTables[key].log_E
        log_mu == LogTables[key].log_mu
    IN  FloatRet(NpExp(Interp1d(log_E, log_mu, NpLog(energy_MeV))))

get_mu(material_key, energy_MeV) ==
    IF material_key \notin MATERIAL_KEYS THEN Raise(UnknownMaterial)
    ELSE LET log_E  == LogTables[material_key].log_E
             log_mu == LogTables[material_key].log_mu
         IN  FloatRet(NpExp(Interp1d(log_E, log_mu, NpLog(energy_MeV))))

\* c / mu for a constant c and the result of get_mu
Over(c, mu) ==
    IF mu.kind = "value" THEN Value(DivFx(c, mu.val)) ELSE mu

get_halfvalue_layer(material_key, energy_MeV) ==
    Over(LnFx(2 * SCALE), get_mu(material_key, energy_MeV))

get_tenthvalue_layer(material_key, energy_MeV) ==
    Over(LnFx(10 * SCALE), get_mu(material_key, energy_MeV))

\* -np.log(target_dose / source_dose), a float
NegLogRatio(source_dose, target_dose) ==
    LET l == NpLog(Fin(DivFx(target_dose, Abs(source_dose))
                        * (IF source_dose < 0 THEN -1 ELSE 1)))
    IN  IF l.cls = "fin" THEN Fin(-l.v)
        ELSE IF l.cls = "ninf" THEN PInf
        ELSE l


\* -np.log(target_dose / source_dose) / mu, after get_mu returned mu
BeerLambert(mu, source_dose, target_dose) ==
    IF mu.kind = "raise" THEN mu
    ELSE IF source_dose = 0 THEN Raise("ZeroDivisionError")
    ELSE LET n == NegLogRatio(source_dose, target_dose)
         IN  IF mu.kind = "nan" \/ n.cls = "nan" THEN NanRet
             ELSE IF n.cls = "pinf" THEN InfRet
             ELSE Value(DivFx(n.v, mu.val))

\* mutant: the early return for source_dose <= target_dose is missing
required_thickness_NoEarlyReturn(material_key, source_dose, target_dose, energy_MeV) ==
    BeerLambert(get_mu(material_key, energy_MeV), source_dose, target_dose)

\* mutant: the minus sign of the Beer-Lambert inversion is missing
required_thickness_SignSlip(material_key, source_dose, target_dose, energy_MeV) ==
    IF source_dose <= target_dose THEN Value(0)
    ELSE LET r == BeerLambert(get_mu(material_key, energy_MeV), source_dose, target_dose)
         IN  IF r.kind = "value" THEN Value(-r.val) ELSE r

\* mutant: the material is ignored, every shield is taken to be concrete
required_thickness_ConcreteOnly(material_key, source_dose, target_dose, energy_MeV) ==
    IF source_dose <= target_dose THEN Value(0)
    ELSE BeerLambert(get_mu("concrete", energy_MeV), source_dose, target_dose)

required_thickness(material_key, source_dose, target_dose, energy_MeV) ==
    IF source_dose <= target_dose THEN Value(0)
    ELSE BeerLambert(get_mu(material_key, energy_MeV), source_dose, target_dose)

\* the keys of MATERIAL_DATA in the order the dict lists them
MaterialOrder ==
    <<"concrete", "heavy_concrete", "steel", "lead", "bentonite_slurry",
      "borated_bentonite", "polyethylene", "earth_soil">>

\* round(mu, 4): to the nearest multiple of 0.0001
Round4(v) == LET q == SCALE \div 10^4 IN DivR(v, q) * q

RoundRet(r) == IF r.kind = "value" THEN Value(Round4(r.val)) ELSE r

\* one row of the summary: the material and its rounded mu
SummaryRow(key, energy_MeV) ==
    [Material |-> key, mu |-> RoundRet(get_mu(key, energy_MeV))]

\* the indices S of rows in every order that has the mu column descending;
\* the order of equal values is the sort algorithm's business
RECURSIVE Descending(_, _)
Descending(rows, S) ==
    IF S = {} THEN {<< >>}
    ELSE UNION {{<<i>> \o s : s \in Descending(rows, S \ {i})} :
                  i \in {i \in S : \A j \in S : rows[j].mu.val <= rows[i].mu.val}}

\* the indices S in increasing order
RECURSIVE InOrder(_)
InOrder(S) ==
    IF S = {} THEN << >>
    ELSE LET i == CHOOSE i \in S : \A j \in S : i <= j
         IN  <<i>> \o InOrder(S \ {i})

\* mutant: the rows are left in the order of the catalogue
SortValues_Unsorted(rows) == {rows}

\* DataFrame.sort_values(column, ascending=False): the numbers descending,
\* the nan rows after them in their original order
SortValues(rows) ==
    LET numbers == {i \in DOMAIN rows : rows[i].mu.kind = "value"}
        nans    == DOMAIN rows \ numbers
    IN  {[k \in DOMAIN rows |-> rows[(s \o InOrder(nans))[k]]] :
            s \in Descending(rows, numbers)}

\* the frames compare_mu_at_energy can return
compare_mu_at_energy(energy_MeV) ==
    SortValues([i \in DOMAIN MaterialOrder |->
                    SummaryRow(MaterialOrder[i], energy_MeV)])

\* app.py: the dashboard's wrapper
calculate_shielding_thickness(current_dose, target_dose, material, energy_MeV) ==
    required_thickness(material, current_dose, target_dose, energy_MeV)

----------------------------------------------------------------------------
(* radiation_mapper.py: RadiationZoneMapper                                *)

\* float comparison a < b: false as soon as one side is nan
LtF(a, b) ==
    IF a.cls = "nan" \/ b.cls = "nan" THEN FALSE
    ELSE IF a.cls = "pinf" \/ b.cls = "ninf" THEN FALSE
    ELSE IF a.cls = "ninf" \/ b.cls = "pinf" THEN TRUE
    ELSE a.v < b.v

\* the zone names in the order the dict zone_limits lists them
ZoneOrder == <<"Public", "Supervised", "Controlled", "Restricted">>

Zones == {ZoneOrder[i] : i \in DOMAIN ZoneOrder}

zone_limits ==
    [Public     |-> Fin(SCALE \div 2),
     Supervised |-> Fin((15 * SCALE) \div 2),
     Controlled |-> Fin(25 * SCALE),
     Restricted |-> PInf]

zone_colors ==
    [Public     |-> "#2ECC71",
     Supervised |-> "#F1C40F",
     Controlled |-> "#E67E22",
     Restricted |-> "#E74C3C"]


\* mutant: the Controlled limit is tested before the Supervised limit
classify_zone_Misordered(dose_rate) ==
    IF LtF(dose_rate, zone_limits["Public"])
        THEN ZoneRet("Public", zone_colors["Public"])
    ELSE IF LtF(dose_rate, zone_limits["Controlled"])
        THEN ZoneRet("Controlled", zone_colors["Controlled"])
    ELSE IF LtF(dose_rate, zone_limits["Supervised"])
        THEN ZoneRet("Supervised", zone_colors["Supervised"])
    ELSE ZoneRet("Restricted", zone_colors["Restricted"])

\* float comparison a <= b
LeF(a, b) ==
    IF a.cls = "nan" \/ b.cls = "nan" THEN FALSE
    ELSE LtF(a, b) \/ a = b

\* mutant: <= where the code has <, a threshold falls into the lower band
classify_zone_Inclusive(dose_rate) ==
    IF LeF(dose_rate, zone_limits["Public"])
        THEN ZoneRet("Public", zone_colors["Public"])
    ELSE IF LeF(dose_rate, zone_limits["Supervised"])
        THEN ZoneRet("Supervised", zone_colors["Supervised"])
    ELSE IF LeF(dose_rate, zone_limits["Controlled"])
        THEN ZoneRet("Controlled", zone_colors["Controlled"])
    ELSE ZoneRet("Restricted", zone_colors["Restricted"])

classify_zone(dose_rate) ==
    IF LtF(dose_rate, zone_limits["Public"])
        THEN ZoneRet("Public", zone_colors["Public"])
    ELSE IF LtF(dose_rate, zone_limits["Supervised"])
        THEN ZoneRet("Supervised", zone_colors["Supervised"])
    ELSE IF LtF(dose_rate, zone_limits["Controlled"])
        THEN ZoneRet("Controlled", zone_colors["Controlled"])
    ELSE ZoneRet("Restricted", zone_colors["Restricted"])

\* str.lower() on the material names the callers pass
Lower(s) ==
    CASE s = "Concrete" -> "concrete"
      [] s = "Lead"     -> "lead"
      [] s = "Steel"    -> "steel"
      [] OTHER          -> s

\* calculate_shielding_required: its own table of mu per cm
mu_values ==
    [concrete |-> (15 * SCALE) \div 100,
     lead     |-> (55 * SCALE) \div 100,
     steel    |-> (30 * SCALE) \div 100]

\* dict.get(key, default)
DictGet(d, key, default) == IF key \in DOMAIN d THEN d[key] ELSE default

\* the tuple (0.0, "No shielding needed") of the early return
TupleRet(v, t) == [kind |-> "tuple", val |-> v, text |-> t]

calculate_shielding_required(current_dose, target_dose, material) ==
    IF current_dose <= target_dose THEN TupleRet(0, "No shielding needed")
    ELSE LET mu == DictGet(mu_values, Lower(material), (15 * SCALE) \div 100)
         IN  BeerLambert(Value(mu), current_dose, target_dose)

\* (dose_rate * occupancy_hours) / 1000, occupancy_hours a whole number
calculate_annual_dose(dose_rate, occupancy_hours) ==
    IF dose_rate.cls = "fin" THEN Fin(DivR(dose_rate.v * occupancy_hours, 1000))
    ELSE dose_rate

----------------------------------------------------------------------------
(* pandas: the dose_rate column as a sequence of floats, nan skipped by    *)
(* the statistics and false in every comparison                            *)

\* float comparison a >= b: false as soon as one side is nan
GeF(a, b) ==
    IF a.cls = "nan" \/ b.cls = "nan" THEN FALSE
    ELSE ~LtF(a, b)

\* the rows of the column that hold a number
NotNa(col, I) == {i \in I : col[i].cls = "fin"}

RECURSIVE SumOver(_, _)
SumOver(f, S) ==
    IF S = {} THEN 0
    ELSE LET i == CHOOSE i \in S : TRUE IN f[i] + SumOver(f, S \ {i})

\* Series.max() and Series.min() over the rows I
SeriesMax(col, I) ==
    LET V == NotNa(col, I)
    IN  IF V = {} THEN NaN
        ELSE col[CHOOSE i \in V : \A j \in V : col[j].v <= col[i].v]

SeriesMin(col, I) ==
    LET V == NotNa(col, I)
    IN  IF V = {} THEN NaN
        ELSE col[CHOOSE i \in V : \A j \in V : col[i].v <= col[j].v]

\* Series.mean() over the rows I
SeriesMean(col, I) ==
    LET V == NotNa(col, I)
    IN  IF V = {} THEN NaN
        ELSE Fin(DivR(SumOver([i \in V |-> col[i].v], V), Cardinality(V)))

\* the k-th smallest number of the rows V
Kth(col, V, k) ==
    LET x == CHOOSE i \in V :
                /\ Cardinality({j \in V : col[j].v < col[i].v}) < k
                /\ k <= Cardinality({j \in V : col[j].v <= col[i].v})
    IN  col[x].v

\* Series.median() over the rows I
SeriesMedian(col, I) ==
    LET V == NotNa(col, I)
        n == Cardinality(V)
    IN  IF n = 0 THEN NaN
        ELSE IF n % 2 = 1 THEN Fin(Kth(col, V, (n + 1) \div 2))
        ELSE Fin(DivR(Kth(col, V, n \div 2) + Kth(col, V, n \div 2 + 1), 2))

\* the largest r in lo..hi with r * r <= n
RECURSIVE SqrtBetween(_, _, _)
SqrtBetween(n, lo, hi) ==
    IF lo = hi THEN lo
    ELSE LET mid == (lo + hi + 1) \div 2
         IN  IF mid * mid <= n THEN SqrtBetween(n, mid, hi)
             ELSE SqrtBetween(n, lo, mid - 1)

\* Series.std() over the rows I: the sample standard deviation (ddof = 1),
\* nan for fewer than two numbers; computed in hundredths, the resolution
\* the report prints it at
SeriesStd(col, I) ==
    LET V   == NotNa(col, I)
        n   == Cardinality(V)
        q   == SCALE \div 100
        m   == SeriesMean(col, I).v
        sq  == [i \in V |-> DivR(col[i].v - m, q) * DivR(col[i].v - m, q)]
        var == DivR(SumOver(sq, V), n - 1)
    IN  IF n < 2 THEN NaN
        ELSE Fin(((SqrtBetween(4 * var, 0, 2 * SCALE) + 1) \div 2) * q)

----------------------------------------------------------------------------
(* generate_compliance_report: the report as the sequence of its lines     *)

\* the mapper object: what __init__ sets, with the worker limit as the
\* caller last left it in annual_limits
Mapper(worker_limit) ==
    [standard      |-> "CERN",
     zone_limits   |-> zone_limits,
     annual_limits |-> [Public     |-> Fin(SCALE),
                        Worker     |-> Fin(worker_limit),
                        Apprentice |-> Fin(6 * SCALE)]]

\* one appended line: what kind of line it is and the values formatted in it
Line(tag, zone, count, val, text) ==
    [tag |-> tag, zone |-> zone, count |-> count, val |-> val, text |-> text]

Rule(ch)      == Line("rule", "", 0, Fin(0), ch)
Heading(text) == Line("heading", "", 0, Fin(0), text)

\* f"{x:.2f}": the float to two decimals
Fmt2(x) ==
    IF x.cls = "fin" THEN LET q == SCALE \div 100 IN Fin(DivR(x.v, q) * q)
    ELSE x

\* f"{percentage:.1f}" of (count / total) * 100
Fmt1Percent(count, total) == Fin(DivR(count * 1000, total) * (SCALE \div 10))

\* mutant: every row below the band's limit, the lower bands' rows included
ZoneRows_Cumulative(self, col, zone_name) ==
    {i \in DOMAIN col : LtF(col[i], self.zone_limits[zone_name])}

\* the rows of the column the branch of zone_name selects
ZoneRows(self, col, zone_name) ==
    IF zone_name = "Public" THEN
        {i \in DOMAIN col : LtF(col[i], self.zone_limits[zone_name])}
    ELSE IF zone_name = "Supervised" THEN
        {i \in DOMAIN col : /\ GeF(col[i], self.zone_limits["Public"])
                            /\ LtF(col[i], self.zone_limits[zone_name])}
    ELSE IF zone_name = "Controlled" THEN
        {i \in DOMAIN col : /\ GeF(col[i], self.zone_limits["Supervised"])
                            /\ LtF(col[i], self.zone_limits[zone_name])}
    ELSE
        {i \in DOMAIN col : GeF(col[i], self.zone_limits["Controlled"])}

\* zone_stats[zone_name]['count']
ZoneCount(self, col, zone_name) == Cardinality(ZoneRows(self, col, zone_name))

\* the lines one pass of the loop over zone_limits appends
ZoneLines(self, col, zone_name) ==
    LET area_points == ZoneRows(self, col, zone_name)
        count       == Cardinality(area_points)
    IN  <<Line("zone", zone_name, 0, Fin(0), "Area:"),
          Line("points", zone_name, count, Fmt1Percent(count, Len(col)),
               "Measurement Points:")>>
        \o (IF count > 0
              THEN <<Line("range_min", zone_name, 0,
                          Fmt2(SeriesMin(col, area_points)), "Dose Rate Range:"),
                     Line("range_max", zone_name, 0,
                          Fmt2(SeriesMax(col, area_points)), "Dose Rate Range:"),
                     Line("zone_mean", zone_name, 0,
                          Fmt2(SeriesMean(col, area_points)), "Mean Dose Rate:")>>
              ELSE << >>)

HeaderLines(self, col, area_name, now) ==
    <<Rule("="),
      Heading("RADIATION ZONE CLASSIFICATION REPORT"),
      Rule("="),
      Line("area", "", 0, Fin(0), area_name),
      Line("survey_date", "", 0, Fin(0), now),
      Line("standard", "", 0, Fin(0), self.standard),
      Line("total", "", Len(col), Fin(0), "Total Measurement Points:")>>

ZoneStatisticsLines(self, col) ==
    <<Rule("-"), Heading("ZONE STATISTICS"), Rule("-")>>
    \o ZoneLines(self, col, ZoneOrder[1])
    \o ZoneLines(self, col, ZoneOrder[2])
    \o ZoneLines(self, col, ZoneOrder[3])
    \o ZoneLines(self, col, ZoneOrder[4])

OverallLines(col) ==
    <<Rule("-"), Heading("OVERALL STATISTICS"), Rule("-"),
      Line("maximum", "", 0, Fmt2(SeriesMax(col, DOMAIN col)), "Maximum Dose Rate:"),
      Line("minimum", "", 0, Fmt2(SeriesMin(col, DOMAIN col)), "Minimum Dose Rate:"),
      Line("mean", "", 0, Fmt2(SeriesMean(col, DOMAIN col)), "Mean Dose Rate:"),
      Line("median", "", 0, Fmt2(SeriesMedian(col, DOMAIN col)), "Median Dose Rate:"),
      Line("std", "", 0, Fmt2(SeriesStd(col, DOMAIN col)), "Standard Deviation:")>>

\* the literal 20 of the two worker-limit lines
ReportWorkerLimit == 20

\* 'EXCEEDED' if annual > 20 else 'OK'
WorkerFlag(annual) ==
    IF LtF(Fin(ReportWorkerLimit * SCALE), annual) THEN "EXCEEDED" ELSE "OK"

AnnualLines(self, col, occupancy_hours) ==
    LET max_annual  == calculate_annual_dose(SeriesMax(col, DOMAIN col),
                                             occupancy_hours)
        mean_annual == calculate_annual_dose(SeriesMean(col, DOMAIN col),
                                             occupancy_hours)
    IN  <<Rule("-"), Heading("ANNUAL DOSE PROJECTIONS"), Rule("-"),
          Line("occupancy", "", occupancy_hours, Fin(0), "Occupancy Assumption:"),
          Line("max_annual", "", 0, Fmt2(max_annual), "Maximum Annual Dose:"),
          Line("max_worker_limit", "", ReportWorkerLimit, Fin(0),
               WorkerFlag(max_annual)),
          Line("mean_annual", "", 0, Fmt2(mean_annual), "Mean Annual Dose:"),
          Line("mean_worker_limit", "", ReportWorkerLimit, Fin(0),
               WorkerFlag(mean_annual))>>
\* the block of one zone in the compliance assessment: its headline with the
\* count and its action items
ActionBlock(zone_name, count, headline, items) ==
    IF count > 0
      THEN <<Line("action", zone_name, count, Fin(0), headline),
             Line("action_required", zone_name, 0, Fin(0), "Action Required:")>>
           \o [i \in DOMAIN items |-> Line("item", zone_name, 0, Fin(0), items[i])]
      ELSE << >>

ComplianceLines(self, col) ==
    LET restricted_points == ZoneCount(self, col, "Restricted")
        controlled_points == ZoneCount(self, col, "Controlled")
        supervised_points == ZoneCount(self, col, "Supervised")
    IN  <<Rule("-"), Heading("COMPLIANCE ASSESSMENT"), Rule("-")>>
        \o ActionBlock("Restricted", restricted_points,
                       "WARNING: restricted area points detected",
                       <<"Install physical barriers and access controls",
                         "Post radiation warning signs",
                         "Implement dosimetry requirements",
                         "Establish work permits for entry">>)
        \o ActionBlock("Controlled", controlled_points,
                       "CAUTION: controlled area points detected",
                       <<"Designate as controlled area",
                         "Implement access restrictions",
                         "Provide dosimetry for workers">>)
        \o ActionBlock("Supervised", supervised_points,
                       "INFO: supervised area points detected",
                       <<"Designate as supervised area",
                         "Monitor access and occupancy">>)
        \o (IF restricted_points = 0 /\ controlled_points = 0
                 /\ supervised_points = 0
              THEN <<Line("public_only", "Public", 0, Fin(0),
                          "All areas classified as Public - no special controls required")>>
              ELSE << >>)

EndLines == <<Rule("="), Heading("END OF REPORT"), Rule("=")>>

\* the report text, line by line
ReportRet(lines) == [kind |-> "report", lines |-> lines]

\* mutant: the zone statistics are written after the overall statistics
generate_compliance_report_StatisticsSwapped(self, col, area_name, occupancy_hours, now) ==
    IF Len(col) = 0 THEN Raise("ZeroDivisionError")
    ELSE ReportRet(HeaderLines(self, col, area_name, now)
                   \o OverallLines(col)
                   \o ZoneStatisticsLines(self, col)
                   \o AnnualLines(self, col, occupancy_hours)
                   \o ComplianceLines(self, col)
                   \o EndLines)

\* generate_compliance_report on the dose_rate column col; now is what
\* datetime.now() shows.  The first percentage divides by len(measurements_df).
generate_compliance_report(self, col, area_name, occupancy_hours, now) ==
    IF Len(col) = 0 THEN Raise("ZeroDivisionError")
    ELSE ReportRet(HeaderLines(self, col, area_name, now)
                   \o ZoneStatisticsLines(self, col)
                   \o OverallLines(col)
                   \o AnnualLines(self, col, occupancy_hours)
                   \o ComplianceLines(self, col)
                   \o EndLines)

----------------------------------------------------------------------------
(* Measurement tables with their coordinates.  A table is a function from  *)
(* the positions surveyed to the dose rate read there; a coordinate is a   *)
(* whole number of tenths of a metre.                                      *)

\* one metre, in coordinate units
Metre == SCALE \div 1000

Pos(x, y) == [x |-> x, y |-> y]

\* measurements_df['x'].min() and the like over a non-empty table
MinOf(S) == CHOOSE a \in S : \A b \in S : a <= b
MaxOf(S) == CHOOSE a \in S : \A b \in S : b <= a

Xs(df) == {p.x : p \in DOMAIN df}
Ys(df) == {p.y : p \in DOMAIN df}

\* Series.between(left, right): both ends included
Between(v, left, right) == left <= v /\ v <= right

----------------------------------------------------------------------------
(* scipy.interpolate.griddata on a table of at most three points: the      *)
(* Delaunay triangulation of three points is the one triangle they span.   *)

\* twice the signed area of the triangle a, b, c
Cross(a, b, c) == (b.x - a.x) * (c.y - a.y) - (b.y - a.y) * (c.x - a.x)

\* Delaunay cannot start: fewer than three points, or all on one line
Degenerate(P) ==
    \/ Cardinality(P) < 3
    \/ \A a \in P, b \in P, c \in P : Cross(a, b, c) = 0

Sign(n) == IF n < 0 THEN -1 ELSE 1

\* LinearNDInterpolator at p: the plane through the three measurements
\* inside the triangle (its edges included), nan outside the convex hull
LinearND(df, p) ==
    LET t  == CHOOSE t \in (DOMAIN df) \X (DOMAIN df) \X (DOMAIN df) :
                  Cardinality({t[1], t[2], t[3]}) = 3
        a  == t[1]
        b  == t[2]
        c  == t[3]
        s  == Sign(Cross(a, b, c))
        wa == s * Cross(p, b, c)
        wb == s * Cross(a, p, c)
        wc == s * Cross(a, b, p)
    IN  IF wa >= 0 /\ wb >= 0 /\ wc >= 0
          THEN Fin(DivR(wa * df[a].v + wb * df[b].v + wc * df[c].v, wa + wb + wc))
          ELSE NaN

\* the squared distance of two positions
Dist2(p, q) == (p.x - q.x) * (p.x - q.x) + (p.y - q.y) * (p.y - q.y)

\* NearestNDInterpolator at p: the value at the nearest measurement; of
\* equally near measurements the k-d tree returns the one its layout ranks
\* first
NearestND(df, rank, p) ==
    LET near == {q \in DOMAIN df : \A r \in DOMAIN df : Dist2(p, q) <= Dist2(p, r)}
    IN  df[CHOOSE q \in near : \A r \in near : rank[q] <= rank[r]]

\* the rankings of the table's points
Rankings(df) ==
    {r \in [DOMAIN df -> 1..Cardinality(DOMAIN df)] :
        \A p \in DOMAIN df, q \in DOMAIN df : r[p] = r[q] => p = q}

\* the methods griddata knows for points in the plane
GriddataMethods == {"nearest", "linear", "cubic"}

\* what griddata raises for the table and the method, "" if nothing
GriddataError(df, method) ==
    IF method \notin GriddataMethods THEN "ValueError: Unknown interpolation method"
    ELSE IF method = "nearest" THEN ""
    ELSE IF Degenerate(DOMAIN df) THEN "QhullError"
    ELSE ""

\* griddata(points, values, xi, method) at one node, when nothing is raised;
\* through three points the cubic interpolant is the same plane as the linear
GriddataAt(df, method, rank, p) ==
    IF method = "nearest" THEN NearestND(df, rank, p) ELSE LinearND(df, p)

----------------------------------------------------------------------------
(* create_interpolated_map                                                 *)

\* np.mgrid[lo:hi:complex(0, n)]: n nodes from lo to hi, both included
Linspace(lo, hi, n) == [i \in 1..n |-> lo + DivR((i - 1) * (hi - lo), n - 1)]

\* the grid (grid_x, grid_y, grid_dose): the nodes of the two axes and the
\* dose rate at each node
GridRet(grid_x, grid_y, grid_dose) ==
    [kind |-> "grid", grid_x |-> grid_x, grid_y |-> grid_y, grid_dose |-> grid_dose]

\* the node (i, j) of the grid
Node(grid_x, grid_y, c) == Pos(grid_x[c[1]], grid_y[c[2]])

\* a back-fill that overwrites the whole grid with the nearest measurement
BackFill_AllCells(df, rank, grid_x, grid_y, grid_dose) ==
    [c \in DOMAIN grid_dose |-> NearestND(df, rank, Node(grid_x, grid_y, c))]

\* if np.isnan(grid_dose).any(): the nan cells take the nearest measurement,
\* the other cells keep their value
BackFill(df, rank, grid_x, grid_y, grid_dose) ==
    IF \E c \in DOMAIN grid_dose : grid_dose[c].cls = "nan"
      THEN [c \in DOMAIN grid_dose |->
              IF grid_dose[c].cls = "nan"
                THEN NearestND(df, rank, Node(grid_x, grid_y, c))
                ELSE grid_dose[c]]
      ELSE grid_dose

\* create_interpolated_map; rank is the k-d tree's ranking of the points.
\* points[:, 0].min() of an empty table is a ValueError.
create_interpolated_map(df, method, resolution, buffer_distance, rank) ==
    IF DOMAIN df = {} THEN Raise("ValueError: zero-size array")
    ELSE LET x_min  == MinOf(Xs(df)) - buffer_distance
             x_max  == MaxOf(Xs(df)) + buffer_distance
             y_min  == MinOf(Ys(df)) - buffer_distance
             y_max  == MaxOf(Ys(df)) + buffer_distance
             grid_x == Linspace(x_min, x_max, resolution)
             grid_y == Linspace(y_min, y_max, resolution)
             cells  == (1..resolution) \X (1..resolution)
             grid_dose == [c \in cells |->
                             GriddataAt(df, method, rank, Node(grid_x, grid_y, c))]
         IN  IF GriddataError(df, method) # ""
               THEN Raise(GriddataError(df, method))
               ELSE GridRet(grid_x, grid_y,
                            BackFill(df, rank, grid_x, grid_y, grid_dose))

----------------------------------------------------------------------------
(* app.py: the Environmental Boundary block of the dashboard               *)

\* mutant: every point of the table is taken, wherever it lies
BoundaryPoints_WholeTable(df) == DOMAIN df

\* the rows within 2 m of an edge of the table's bounding box; of an empty
\* table the edges are nan and no row is selected
BoundaryPoints(df) ==
    IF DOMAIN df = {} THEN {}
    ELSE LET x_min == MinOf(Xs(df))
             x_max == MaxOf(Xs(df))
             y_min == MinOf(Ys(df))
             y_max == MaxOf(Ys(df))
         IN  {p \in DOMAIN df :
                \/ Between(p.x, x_min, x_min + 2 * Metre)
                \/ Between(p.x, x_max - 2 * Metre, x_max)
                \/ Between(p.y, y_min, y_min + 2 * Metre)
                \/ Between(p.y, y_max - 2 * Metre, y_max)}

\* what the block shows
BoundaryRet(points, dose, verdict) ==
    [kind |-> "boundary", boundary_points |-> points,
     max_boundary_dose |-> dose, verdict |-> verdict]

EnvironmentalBoundary(df) ==
    LET boundary_points   == BoundaryPoints(df)
        max_boundary_dose == IF boundary_points # {}
                               THEN SeriesMax(df, boundary_points)
                               ELSE Fin(0)
    IN  BoundaryRet(boundary_points, max_boundary_dose,
                    IF LtF(Fin(SCALE \div 2), max_boundary_dose)
                      THEN "LEAKAGE DETECTED"
                      ELSE "CONTAINMENT SECURE")

----------------------------------------------------------------------------
(* Inputs                                                                  *)

\* doses are drawn from a grid of half a microsievert per hour
DoseStep == SCALE \div 2

\* the largest dose rate handed to classify_zone, in steps (26.0)
MaxRateSteps == 52

\* the largest dose handed to required_thickness, in steps (3.0)
MaxDoseSteps == 6

\* the most negative dose, in steps (-1.0)
NegDoseSteps == 2

\* dose rates: the grid points, the value one unit below each, and nan
DoseRates ==
    {Fin(d * DoseStep) : d \in -NegDoseSteps..MaxRateSteps}
        \cup {Fin(d * DoseStep - 1) : d \in -NegDoseSteps..MaxRateSteps}
        \cup {NaN}

\* the default source dose of the quick shielding calculator
HotspotDose == 50

ShieldDoses ==
    {d * DoseStep : d \in -NegDoseSteps..MaxDoseSteps} \cup {HotspotDose * SCALE}

\* registered keys and keys the catalogue does not hold
MaterialInputs == MATERIAL_KEYS \cup {"water", "Concrete"}

\* energies inside the table that are not tabulated (0.3, 1.5, 7.0 MeV)
BetweenEnergies == {(3 * SCALE) \div 10, (15 * SCALE) \div 10, 7 * SCALE}

\* positive energies below 0.1 MeV (0.02, 0.05) and above 10 MeV (20, 50)
BelowEnergies == {(2 * SCALE) \div 100, (5 * SCALE) \div 100}
AboveEnergies == {20 * SCALE, 50 * SCALE}

TabulatedEnergies == {TabEnergies[i] : i \in DOMAIN TabEnergies}

EnergyInputs ==
    {Fin(e) : e \in TabulatedEnergies \cup BetweenEnergies
                        \cup BelowEnergies \cup AboveEnergies \cup {0, -SCALE}}
        \cup {NaN, PInf, NInf}

\* the default energy_MeV=1.0
DefaultEnergy == Fin(SCALE)

\* energies handed to required_thickness
ThicknessEnergies ==
    {Fin((5 * SCALE) \div 100), Fin(SCALE \div 10), DefaultEnergy,
     Fin(7 * SCALE), Fin(0), NaN}

\* the dashboard's quick calculator: target zone 0.5, 3.0 or 10.0,
\* energy slider 0.1 .. 10.0, material one of MATERIAL_KEYS
AppTargets  == {SCALE \div 2, 3 * SCALE, 10 * SCALE}
AppEnergies == {Fin(SCALE \div 10), DefaultEnergy, Fin(10 * SCALE)}

\* dose rates of a measurement table: inside a band or on a band's lower
\* edge, and a reading that is missing (0.3, 0.5, 5.0, 7.5, 30.0, nan)
TableDoses ==
    {Fin((3 * SCALE) \div 10), Fin(SCALE \div 2), Fin(5 * SCALE),
     Fin((15 * SCALE) \div 2), Fin(30 * SCALE), NaN}

\* a table holds at most this many measurements
MaxPoints == 3

\* the dose_rate columns of the tables, the empty table included
DoseColumns == UNION {[1..n -> TableDoses] : n \in 0..MaxPoints}

\* occupancy_hours: the default and a part-time year
OccupancyInputs == {2000, 500}

\* annual_limits['Worker']: as __init__ sets it, and lowered by the caller
WorkerLimitInputs == {20 * SCALE, 10 * SCALE}

\* what datetime.now() shows, to the minute
ClockInputs == {"2026-01-01 09:00", "2026-01-01 09:01"}

\* positions of a survey, in metres: two opposite corners (0, 0) and (10, 8),
\* the middle (5, 4), a point exactly 2 m from the left edge (2, 4) and one
\* just further than 2 m from every edge (2.1, 5.9)
SurveyPositions ==
    {Pos(0, 0), Pos(10 * Metre, 8 * Metre), Pos(5 * Metre, 4 * Metre),
     Pos(2 * Metre, 4 * Metre), Pos((21 * Metre) \div 10, (59 * Metre) \div 10)}

\* dose rates of a boundary survey: below, at and above the Public limit
\* (0.3, 0.5, 2.0), and a missing reading
BoundaryDoses ==
    {Fin((3 * SCALE) \div 10), Fin(SCALE \div 2), Fin(2 * SCALE), NaN}

\* the tables: any of the positions, each with any of the doses
BoundaryTables == UNION {[S -> BoundaryDoses] : S \in SUBSET SurveyPositions}

\* dose rates of a survey to interpolate (0.3, 2.0)
MapDoses == {Fin((3 * SCALE) \div 10), Fin(2 * SCALE)}

\* the surveys to interpolate: up to three of the positions
MapTables ==
    UNION {[S -> MapDoses] : S \in {T \in SUBSET SurveyPositions : Cardinality(T) <= 3}}

\* the dashboard's four selectable methods
SelectableMethods == {"idw", "linear", "cubic", "nearest"}

\* grid resolutions, and buffers of 0 m and the default 5 m
ResolutionInputs == {3, 4}
BufferInputs == {0, 5 * Metre}

\* what a caller may pass after the energy: nothing, or a subset of materials
NoSubset == [given |-> FALSE, keys |-> {}]
Subset(ks) == [given |-> TRUE, keys |-> ks]
SubsetInputs == {NoSubset, Subset({"lead", "concrete"}), Subset({"steel"})}

\* materials for calculate_shielding_required: in its table, in its table
\* after lower(), and outside its table
MapperMaterials ==
    {"concrete", "lead", "steel", "Concrete", "Lead", "water", "borated_bentonite"}

----------------------------------------------------------------------------
(* The dashboard script.  Streamlit runs app.py from top to bottom in a     *)
(* fresh namespace on every interaction; an uncaught exception ends the run. *)
(* A run is followed block by block: step names the block that ran last and *)
(* names holds the variables the run has bound so far.                      *)

\* the tables a run can load: the surveys of up to three positions (an
\* uploaded CSV may hold any number of rows, none included)
AppTables == MapTables

\* one run of the script: is_none is "measurements_df is None"
AppRun(step, is_none, df, names) ==
    [op |-> "app", step |-> step, is_none |-> is_none,
     measurements_df |-> df, names |-> names]

\* the blocks of the script, in the order they run
AppSteps == <<"data_input", "zone_map", "engineering_report", "remediation_plan">>

\* the dose_rate column of a table, in the order of its rows
DoseColumn(df) ==
    LET n    == Cardinality(DOMAIN df)
        rows == CHOOSE s \in [1..n -> DOMAIN df] :
                    \A i \in 1..n, j \in 1..n : s[i] = s[j] => i = j
    IN  [i \in 1..n |-> df[rows[i]]]

\* plot_zone_map(measurements_df, area_name=, show_measurements=, show_grid=,
\* add_buffer_zones=, interp_method=, adaptive_scale=, figsize=): the method
\* takes no interp_method and no adaptive_scale
plot_zone_map(keywords) ==
    IF keywords \subseteq {"area_name", "show_measurements", "show_grid",
                           "add_buffer_zones", "figsize"}
      THEN Value(0)
      ELSE Raise("TypeError: unexpected keyword argument")

----------------------------------------------------------------------------
(* The session: one call at a time, its arguments and what it produced.    *)
(* call is the function being called with its arguments (op "none" between *)
(* calls); ret is what the call returned or raised.  The functions keep no  *)
(* state of their own: the catalogue and the zone limits are read-only.     *)

VARIABLES call, ret

vars == <<call, ret>>

Call(o, m, e, s, t, d) ==
    [op |-> o, material |-> m, energy |-> e, source |-> s, target |-> t, dose |-> d]

NoCall == Call("none", "", Fin(0), 0, 0, Fin(0))

Init ==
    /\ call = NoCall
    /\ ret = NoRet

\* no call is in progress: every function is synchronous and keeps no state
Idle == call = NoCall

\* the run has reached the end of the script or has been ended by an exception
AppEnded ==
    \/ call.step = AppSteps[Len(AppSteps)]
    \/ ret.kind = "raise"

\* a run of the script is under way
AppRunning == call.op = "app" /\ ~AppEnded

\* the caller has consumed the result; a run of the script is left only
\* when it has ended
Return ==
    /\ ~Idle
    /\ ~AppRunning
    /\ call' = NoCall
    /\ ret' = NoRet

ClassifyZone ==
    /\ Idle
    /\ \E d \in DoseRates :
            /\ call' = Call("classify_zone", "", Fin(0), 0, 0, d)
            /\ ret' = classify_zone(d)

GetMu ==
    /\ Idle
    /\ \E m \in MaterialInputs, e \in EnergyInputs :
            /\ call' = Call("get_mu", m, e, 0, 0, Fin(0))
            /\ ret' = get_mu(m, e)

GetHalfValueLayer ==
    /\ Idle
    /\ \E m \in MaterialInputs, e \in EnergyInputs :
            /\ call' = Call("get_halfvalue_layer", m, e, 0, 0, Fin(0))
            /\ ret' = get_halfvalue_layer(m, e)

GetTenthValueLayer ==
    /\ Idle
    /\ \E m \in MaterialInputs, e \in EnergyInputs :
            /\ call' = Call("get_tenthvalue_layer", m, e, 0, 0, Fin(0))
            /\ ret' = get_tenthvalue_layer(m, e)

RequiredThickness ==
    /\ Idle
    /\ \E m \in MaterialInputs, e \in ThicknessEnergies, s \in ShieldDoses, t \in ShieldDoses :
            /\ call' = Call("required_thickness", m, e, s, t, Fin(0))
            /\ ret' = required_thickness(m, s, t, e)

CalculateShieldingThickness ==
    /\ Idle
    /\ \E m \in MATERIAL_KEYS, e \in AppEnergies, s \in ShieldDoses, t \in AppTargets :
            /\ call' = Call("calculate_shielding_thickness", m, e, s, t, Fin(0))
            /\ ret' = calculate_shielding_thickness(s, t, m, e)

\* a DataFrame of summary rows
FrameRet(rows) == [kind |-> "frame", rows |-> rows]

\* compare_mu_at_energy takes the energy and nothing else: a further
\* argument is a TypeError of the call
CompareMuAtEnergy ==
    /\ Idle
    /\ \E e \in EnergyInputs, sub \in SubsetInputs :
            /\ call' = [op |-> "compare_mu_at_energy", energy |-> e, materials |-> sub]
            /\ IF sub.given
                 THEN ret' = Raise("TypeError")
                 ELSE \E rows \in compare_mu_at_energy(e) : ret' = FrameRet(rows)

GenerateComplianceReport ==
    /\ Idle
    /\ \E col \in DoseColumns, h \in OccupancyInputs, w \in WorkerLimitInputs,
           now \in ClockInputs :
            /\ call' = [op |-> "generate_compliance_report", self |-> Mapper(w),
                        dose_rate |-> col, area_name |-> "Survey Area",
                        occupancy_hours |-> h, now |-> now]
            /\ ret' = generate_compliance_report(Mapper(w), col, "Survey Area", h, now)

\* the dashboard reaches its Environmental Boundary block with a table loaded
EnvironmentalBoundaryBlock ==
    /\ Idle
    /\ \E df \in BoundaryTables :
            /\ call' = [op |-> "environmental_boundary", measurements_df |-> df]
            /\ ret' = EnvironmentalBoundary(df)

CreateInterpolatedMap ==
    /\ Idle
    /\ \E df \in MapTables, m \in SelectableMethods, n \in ResolutionInputs,
           b \in BufferInputs :
            \E rank \in Rankings(df) :
                /\ call' = [op |-> "create_interpolated_map", measurements_df |-> df,
                            method |-> m, resolution |-> n, buffer_distance |-> b]
                /\ ret' = create_interpolated_map(df, m, n, b, rank)

CalculateShieldingRequired ==
    /\ Idle
    /\ \E c \in ShieldDoses, t \in ShieldDoses, m \in MapperMaterials :
            /\ call' = Call("calculate_shielding_required", m, Fin(0), c, t, Fin(0))
            /\ ret' = calculate_shielding_required(c, t, m)

\* with col1, to the end of the data input: measurements_df = None, then the
\* chosen source may bind a table
AppDataInput ==
    /\ Idle
    /\ \E is_none \in BOOLEAN, df \in AppTables :
            /\ is_none => df = << >>
            /\ call' = AppRun("data_input", is_none, df, {"measurements_df"})
            /\ ret' = NoRet

\* if measurements_df is not None and len(measurements_df) >= 3: the mapper
\* is constructed and the map is plotted
AppZoneMap ==
    /\ AppRunning
    /\ call.step = "data_input"
    /\ IF ~call.is_none /\ Cardinality(DOMAIN call.measurements_df) >= 3
         THEN /\ call' = [call EXCEPT !.step = "zone_map",
                                      !.names = @ \cup {"mapper"}]
              /\ ret' = plot_zone_map({"area_name", "show_measurements",
                                       "show_grid", "add_buffer_zones",
                                       "interp_method", "adaptive_scale",
                                       "figsize"})
         ELSE /\ call' = [call EXCEPT !.step = "zone_map"]
              /\ ret' = NoRet

\* with col2: if measurements_df is not None, max_dose, the zone counts and
\* the environmental boundary
AppEngineeringReport ==
    /\ AppRunning
    /\ call.step = "zone_map"
    /\ IF ~call.is_none
         THEN /\ call' = [call EXCEPT !.step = "engineering_report",
                                      !.names = @ \cup {"max_dose", "zones"}]
              /\ ret' = EnvironmentalBoundary(call.measurements_df)
         ELSE /\ call' = [call EXCEPT !.step = "engineering_report"]
              /\ ret' = NoRet

\* if measurements_df is not None: the compliance report of the mapper, then
\* the shielding table (which binds nothing the run reads again)
AppRemediationPlan ==
    /\ AppRunning
    /\ call.step = "engineering_report"
    /\ call' = [call EXCEPT !.step = "remediation_plan"]
    /\ IF call.is_none THEN ret' = NoRet
       ELSE IF "mapper" \notin call.names THEN ret' = Raise("NameError: mapper")
       ELSE \E now \in ClockInputs :
                ret' = generate_compliance_report(
                           Mapper(20 * SCALE),
                           DoseColumn(call.measurements_df),
                           "Survey Area", 2000, now)

Next ==
    \/ ClassifyZone
    \/ GetMu
    \/ GetHalfValueLayer
    \/ GetTenthValueLayer
    \/ RequiredThickness
    \/ CalculateShieldingThickness
    \/ CalculateShieldingRequired
    \/ CompareMuAtEnergy
    \/ GenerateComplianceReport
    \/ EnvironmentalBoundaryBlock
    \/ CreateInterpolatedMap
    \/ AppDataInput
    \/ AppZoneMap
    \/ AppEngineeringReport
    \/ AppRemediationPlan
    \/ Return

Spec == Init /\ [][Next]_vars

----------------------------------------------------------------------------
(* Zone classification                                                     *)

\* the position of a zone in ZoneOrder
ZoneIndex(z) == CHOOSE i \in DOMAIN ZoneOrder : ZoneOrder[i] = z

\* a band's inclusive lower bound: 0 for the first band, else the limit of
\* the band before it
BandLower(z) ==
    IF ZoneIndex(z) = 1 THEN Fin(0) ELSE zone_limits[ZoneOrder[ZoneIndex(z) - 1]]

\* d lies in the band of z: lower <= d < upper
InBand(z, d) == ~LtF(d, BandLower(z)) /\ LtF(d, zone_limits[z])

ClassifyCalled == call.op = "classify_zone"

FirstBand(d) ==
    ZoneOrder[CHOOSE i \in DOMAIN ZoneOrder :
                /\ LtF(d, zone_limits[ZoneOrder[i]])
                /\ \A j \in 1..(i - 1) : ~LtF(d, zone_limits[ZoneOrder[j]])]

C3_NegativeDoseRateRaises ==
    (ClassifyCalled /\ call.dose.cls = "fin" /\ call.dose.v < 0) =>
        /\ ret.kind = "raise"
        /\ ret.err = "InvalidDoseError"

----------------------------------------------------------------------------
(* Required thickness                                                      *)

ThicknessCalled ==
    call.op \in {"required_thickness", "calculate_shielding_thickness"}

\* C4: required_thickness returns exactly 0.0, a normal result and not an
\* error, for every dose pair with source_dose <= target_dose (also through
\* the dashboard's wrapper calculate_shielding_thickness).
C4_NoShieldingNeeded ==
    (ThicknessCalled /\ call.source <= call.target) => ret = Value(0)

C4_Witness ==
    /\ call.op = "required_thickness"
    /\ call.material = "lead"
    /\ 0 < call.source
    /\ call.source < call.target
    /\ ret = Value(0)

\* source/target of the first pair is below that of the second (positive
\* doses, compared in grid steps)
RatioLess(s1, t1, s2, t2) ==
    (s1 \div DoseStep) * (t2 \div DoseStep) < (s2 \div DoseStep) * (t1 \div DoseStep)

\* the dose pairs with source_dose > target_dose > 0
ShieldedPairs == {p \in ShieldDoses \X ShieldDoses : p[1] > p[2] /\ p[2] > 0}

\* C5: for a registered material, a positive finite energy and
\* source_dose > target_dose > 0 the thickness is strictly positive, and for
\* the same material and energy a larger ratio source/target never needs a
\* thinner wall: the thickness grows with the ratio.
C5_PositiveAndMonotone ==
    (/\ call.op = "required_thickness"
     /\ call.material \in MATERIAL_KEYS
     /\ call.energy.cls = "fin" /\ call.energy.v > 0
     /\ <<call.source, call.target>> \in ShieldedPairs) =>
        /\ ret.kind = "value"
        /\ ret.val > 0
        /\ \A p \in ShieldedPairs :
              RatioLess(call.source, call.target, p[1], p[2]) =>
                  LET r == required_thickness(call.material, p[1], p[2], call.energy)
                  IN  r.kind = "value" /\ ret.val < r.val

C5_Witness ==
    /\ call.op = "required_thickness"
    /\ call.material = "concrete"
    /\ call.energy = DefaultEnergy
    /\ call.source = 3 * DoseStep
    /\ call.target = 2 * DoseStep
    /\ ret.kind = "value"
    /\ ret.val > 0

\* C6: required_thickness fails with an InvalidDoseError whenever
\* source_dose or target_dose is negative, whatever the order of the two
\* doses, and never returns a thickness for a negative dose.
C6_NegativeDoseRaises ==
    (call.op = "required_thickness" /\ (call.source < 0 \/ call.target < 0)) =>
        /\ ret.kind = "raise"
        /\ ret.err = "InvalidDoseError"

----------------------------------------------------------------------------
(* Attenuation coefficient                                                 *)

\* the tabulated mu of a registered material at one of its tabulated energies
TabulatedMu(k, e) ==
    MATERIAL_DATA[k].mu_cm1[CHOOSE i \in DOMAIN MATERIAL_DATA[k].energies_MeV :
                                MATERIAL_DATA[k].energies_MeV[i] = e]

FirstMu(k) == MATERIAL_DATA[k].mu_cm1[1]
LastMu(k)  == MATERIAL_DATA[k].mu_cm1[Len(MATERIAL_DATA[k].mu_cm1)]

FirstEnergy(k) == MATERIAL_DATA[k].energies_MeV[1]
LastEnergy(k)  == MATERIAL_DATA[k].energies_MeV[Len(MATERIAL_DATA[k].energies_MeV)]

\* got equals want up to the rounding of exp(log(.)): a relative error of at
\* most one part in a thousand at this resolution
WithinRounding(got, want) == Abs(got - want) * 1000 <= want

AtTabulatedEnergy ==
    /\ call.op = "get_mu"
    /\ call.material \in MATERIAL_KEYS
    /\ call.energy.cls = "fin"
    /\ call.energy.v \in {MATERIAL_DATA[call.material].energies_MeV[i] :
                            i \in DOMAIN MATERIAL_DATA[call.material].energies_MeV}

BelowTable ==
    /\ call.op = "get_mu"
    /\ call.material \in MATERIAL_KEYS
    /\ call.energy.cls = "fin"
    /\ 0 < call.energy.v
    /\ call.energy.v < FirstEnergy(call.material)

AboveTable ==
    /\ call.op = "get_mu"
    /\ call.material \in MATERIAL_KEYS
    /\ call.energy.cls = "fin"
    /\ call.energy.v > LastEnergy(call.material)

C9_UnknownMaterialRaises ==
    (/\ call.op \in {"get_mu", "get_halfvalue_layer", "get_tenthvalue_layer"}
     /\ call.material \notin MATERIAL_KEYS) =>
        ret = Raise(UnknownMaterial)

C9_Witness ==
    /\ call.op = "get_tenthvalue_layer"
    /\ call.material = "water"
    /\ call.energy = DefaultEnergy
    /\ ret.kind = "raise"

\* the energy is zero, negative, nan or infinite
InvalidEnergy(e) == e.cls # "fin" \/ e.v <= 0

\* C10: get_mu fails with an InvalidEnergyError exactly when the energy is
\* non-positive or non-finite; a positive finite energy outside the table is
\* no error, and a non-positive energy never yields a mu value.
C10_InvalidEnergyRaises ==
    (call.op = "get_mu" /\ call.material \in MATERIAL_KEYS) =>
        /\ InvalidEnergy(call.energy) <=>
              (ret.kind = "raise" /\ ret.err = "InvalidEnergyError")
        /\ (call.energy.cls = "fin" /\ call.energy.v <= 0) => ret.kind # "value"

\* the smallest and the largest tabulated mu of a registered material
MuValues(k) == {MATERIAL_DATA[k].mu_cm1[i] : i \in DOMAIN MATERIAL_DATA[k].mu_cm1}
MinMu(k) == CHOOSE m \in MuValues(k) : \A n \in MuValues(k) : m <= n
MaxMu(k) == CHOOSE m \in MuValues(k) : \A n \in MuValues(k) : n <= m

\* a registered material and a positive finite energy
ValidMuQuery ==
    /\ call.material \in MATERIAL_KEYS
    /\ call.energy.cls = "fin"
    /\ call.energy.v > 0

\* a layer or a thickness came out as a number: no division by zero, no error
LayersDefined ==
    /\ (call.op \in {"get_halfvalue_layer", "get_tenthvalue_layer"} /\ ValidMuQuery) =>
          (ret.kind = "value" /\ ret.val > 0)
    /\ (call.op = "required_thickness" /\ ValidMuQuery
            /\ call.source > call.target /\ call.target > 0) =>
          ret.kind = "value"

----------------------------------------------------------------------------
(* Lead against concrete                                                   *)

\* required_thickness was called for lead at 1.0 MeV with source > target > 0
LeadShieldCalled ==
    /\ call.op = "required_thickness"
    /\ call.material = "lead"
    /\ call.energy = DefaultEnergy
    /\ call.source > call.target
    /\ call.target > 0

\* C19: at 1.0 MeV, for a source dose of 50.0 and a target dose of 0.5 (and
\* for every pair source > target > 0), the thickness required of lead is
\* positive and strictly smaller than the thickness required of concrete.
C19_LeadThinnerThanConcrete ==
    LeadShieldCalled =>
        LET concrete == required_thickness("concrete", call.source, call.target,
                                           call.energy)
        IN  /\ ret.kind = "value"
            /\ concrete.kind = "value"
            /\ 0 < ret.val
            /\ ret.val < concrete.val

C19_Witness ==
    /\ LeadShieldCalled
    /\ call.source = HotspotDose * SCALE
    /\ call.target = SCALE \div 2
    /\ ret.kind = "value"
    /\ ret.val < required_thickness("concrete", HotspotDose * SCALE, SCALE \div 2,
                                    DefaultEnergy).val

----------------------------------------------------------------------------
(* The mapper's own shielding estimate                                     *)

\* C20: calculate_shielding_required called with a material that is not in
\* its coefficient table fails with an error instead of returning a
\* thickness computed from a fallback coefficient.
C20_UnknownMaterialFails ==
    (/\ call.op = "calculate_shielding_required"
     /\ Lower(call.material) \notin DOMAIN mu_values) =>
        ret.kind = "raise"

----------------------------------------------------------------------------
(* Comparison of the materials at one energy                               *)

\* the materials of the rows, first to last
RowMaterials(rows) == [i \in DOMAIN rows |-> rows[i].Material]

\* every key of ks is the material of exactly one row, and no row is left over
OneRowPer(rows, ks) ==
    /\ Len(rows) = Cardinality(ks)
    /\ \A k \in ks : Cardinality({i \in DOMAIN rows : rows[i].Material = k}) = 1

\* no row has a mu above the mu of the row before it
NonIncreasing(rows) ==
    \A i \in DOMAIN rows :
        (i > 1 /\ rows[i].mu.kind = "value" /\ rows[i - 1].mu.kind = "value") =>
            rows[i].mu.val <= rows[i - 1].mu.val

\* C18 as stated: compare_mu_at_energy returns exactly one summary per
\* material of the catalogue, or per material of the requested subset, with
\* mu non-increasing from the first row to the last.
C18_OneRowPerRequestedMaterial ==
    call.op = "compare_mu_at_energy" =>
        /\ ret.kind = "frame"
        /\ OneRowPer(ret.rows, IF call.materials.given THEN call.materials.keys
                                                       ELSE MATERIAL_KEYS)
        /\ NonIncreasing(ret.rows)

\* C18 as amended: compare_mu_at_energy takes the energy only and returns
\* exactly one summary per material of the catalogue, with mu non-increasing
\* from the first row to the last; it accepts no subset of materials.
C18_OneRowPerCatalogueMaterial ==
    call.op = "compare_mu_at_energy" =>
        IF call.materials.given
          THEN ret.kind = "raise"
          ELSE /\ ret.kind = "frame"
               /\ OneRowPer(ret.rows, MATERIAL_KEYS)
               /\ NonIncreasing(ret.rows)

C18_Witness ==
    /\ call.op = "compare_mu_at_energy"
    /\ call.energy = Fin(10 * SCALE)
    /\ ~call.materials.given
    /\ ret.kind = "frame"
    /\ RowMaterials(ret.rows)[1] = "lead"
    /\ RowMaterials(ret.rows)[2] = "steel"
    /\ RowMaterials(ret.rows)[Len(ret.rows)] = "polyethylene"

----------------------------------------------------------------------------
(* The compliance report                                                   *)

ReportCalled == call.op = "generate_compliance_report"

ReportWritten == ReportCalled /\ ret.kind = "report"

\* the positions of the lines with the given tag
LinesTagged(tag) == {i \in DOMAIN ret.lines : ret.lines[i].tag = tag}

\* the one "Measurement Points" line of a zone
PointsLine(zone_name) ==
    ret.lines[CHOOSE i \in LinesTagged("points") : ret.lines[i].zone = zone_name]

\* the raw measurement points whose dose rate lies in the band's interval
PointsInBand(col, zone_name) ==
    {i \in DOMAIN col : /\ GeF(col[i], BandLower(zone_name))
                        /\ LtF(col[i], zone_limits[zone_name])}

\* the scenario's survey: dose rates 0.3, 5.0 and 30.0
ScenarioColumn == <<Fin((3 * SCALE) \div 10), Fin(5 * SCALE), Fin(30 * SCALE)>>

\* a third of the points, printed to one decimal: 33.3
OneThird == Fin((333 * SCALE) \div 10)

\* C14: for each band the reported count is the number of raw measurement
\* points whose dose rate lies in that band's interval, and the reported
\* percentage is 100 * count / total to one decimal; for the dose rates 0.3,
\* 5.0 and 30.0 the report lists Public 1 (33.3%), Supervised 1 (33.3%),
\* Controlled 0 and Restricted 1 (33.3%).
C14_CountsPerBand ==
    ReportWritten =>
        /\ \A z \in Zones :
            LET n == Cardinality(PointsInBand(call.dose_rate, z))
            IN  /\ Cardinality({i \in LinesTagged("points") :
                                    ret.lines[i].zone = z}) = 1
                /\ PointsLine(z).count = n
                /\ PointsLine(z).val =
                      Fin(DivR(100 * n * 10, Len(call.dose_rate)) * (SCALE \div 10))
        /\ call.dose_rate = ScenarioColumn =>
            /\ PointsLine("Public").count = 1
            /\ PointsLine("Public").val = OneThird
            /\ PointsLine("Supervised").count = 1
            /\ PointsLine("Supervised").val = OneThird
            /\ PointsLine("Controlled").count = 0
            /\ PointsLine("Controlled").val = Fin(0)
            /\ PointsLine("Restricted").count = 1
            /\ PointsLine("Restricted").val = OneThird

C14_Witness ==
    /\ ReportWritten
    /\ call.dose_rate = ScenarioColumn
    /\ PointsLine("Public").count = 1
    /\ PointsLine("Controlled").count = 0
    /\ PointsLine("Restricted").val = OneThird

\* the section a line belongs to, by what the line is: 1 header, 2 zone
\* statistics, 3 overall statistics, 4 annual dose projections, 5 compliance
\* assessment, 6 the closing lines; 0 for a rule, which belongs to no section
SectionOf(l) ==
    CASE l.tag = "rule" -> 0
      [] l.tag = "heading" ->
            (CASE l.text = "RADIATION ZONE CLASSIFICATION REPORT" -> 1
               [] l.text = "ZONE STATISTICS"                      -> 2
               [] l.text = "OVERALL STATISTICS"                   -> 3
               [] l.text = "ANNUAL DOSE PROJECTIONS"              -> 4
               [] l.text = "COMPLIANCE ASSESSMENT"                -> 5
               [] l.text = "END OF REPORT"                        -> 6)
      [] l.tag \in {"area", "survey_date", "standard", "total"} -> 1
      [] l.tag \in {"zone", "points", "range_min", "range_max", "zone_mean"} -> 2
      [] l.tag \in {"maximum", "minimum", "mean", "median", "std"} -> 3
      [] l.tag \in {"occupancy", "max_annual", "max_worker_limit",
                    "mean_annual", "mean_worker_limit"} -> 4
      [] l.tag \in {"action", "action_required", "item", "public_only"} -> 5

\* the place of a line of the compliance assessment among the action blocks:
\* Restricted, Controlled, Supervised, then the Public-only line
BlockOf(l) ==
    IF l.tag = "public_only" THEN 4
    ELSE 4 - (ZoneIndex(l.zone) - 1)

\* the line is not a rule
Written(l) == l.tag # "rule"

\* C16: the report has its sections in the order header, zone statistics
\* (bands in the order Public, Supervised, Controlled, Restricted), overall
\* statistics, annual dose projections, compliance assessment; inside the
\* compliance assessment the action blocks that are present come in the order
\* Restricted, Controlled, Supervised, then the Public-only line.
C16_SectionOrder ==
    ReportWritten =>
        LET text == SelectSeq(ret.lines, Written)
        IN  /\ text[1].tag = "heading"
            /\ SectionOf(text[1]) = 1
            /\ SectionOf(text[Len(text)]) = 6
            /\ \A i \in 1..(Len(text) - 1) :
                LET a == text[i]
                    b == text[i + 1]
                IN  /\ b.tag = "heading" <=> SectionOf(b) = SectionOf(a) + 1
                    /\ b.tag # "heading" => SectionOf(b) = SectionOf(a)
                    /\ (SectionOf(b) = 2 /\ a.tag # "heading" /\ b.tag # "heading") =>
                          ZoneIndex(a.zone) <= ZoneIndex(b.zone)
                    /\ (SectionOf(b) = 5 /\ a.tag # "heading" /\ b.tag # "heading") =>
                          BlockOf(a) <= BlockOf(b)
            /\ \A z \in Zones :
                \E i \in DOMAIN text :
                    text[i].tag = "zone" /\ text[i].zone = z /\ SectionOf(text[i]) = 2

\* a report with all three action blocks
C16_Witness ==
    /\ ReportWritten
    /\ \E r \in LinesTagged("action"), c \in LinesTagged("action"),
          s \in LinesTagged("action") :
            /\ ret.lines[r].zone = "Restricted"
            /\ ret.lines[c].zone = "Controlled"
            /\ ret.lines[s].zone = "Supervised"
            /\ r < c
            /\ c < s
    /\ LinesTagged("public_only") = {}

\* the one line of the report with the given tag
TheLine(tag) == ret.lines[CHOOSE i \in LinesTagged(tag) : TRUE]

\* dose_rate * occupancy_hours / 1000 of the largest and of the mean dose rate
MaxAnnual ==
    calculate_annual_dose(SeriesMax(call.dose_rate, DOMAIN call.dose_rate),
                          call.occupancy_hours)
MeanAnnual ==
    calculate_annual_dose(SeriesMean(call.dose_rate, DOMAIN call.dose_rate),
                          call.occupancy_hours)

\* C17: the annual dose is dose_rate * occupancy_hours / 1000, and the report
\* marks the maximum and the mean annual dose EXCEEDED exactly when it is
\* strictly greater than the mapper's worker limit annual_limits['Worker']
\* (20 unless the caller configured another), otherwise OK.
C17_FlaggedAgainstWorkerLimit ==
    ReportWritten =>
        /\ TheLine("max_annual").val = Fmt2(MaxAnnual)
        /\ TheLine("mean_annual").val = Fmt2(MeanAnnual)
        /\ TheLine("max_worker_limit").text = "EXCEEDED"
              <=> LtF(call.self.annual_limits["Worker"], MaxAnnual)
        /\ TheLine("mean_worker_limit").text = "EXCEEDED"
              <=> LtF(call.self.annual_limits["Worker"], MeanAnnual)
        /\ TheLine("max_worker_limit").text \in {"EXCEEDED", "OK"}
        /\ TheLine("mean_worker_limit").text \in {"EXCEEDED", "OK"}

----------------------------------------------------------------------------
(* The boundary-leak check                                                 *)

BoundaryChecked == call.op = "environmental_boundary"

\* the distance of a point to the nearest edge of the table's bounding box
EdgeDistance(df, p) ==
    MinOf({p.x - MinOf(Xs(df)), MaxOf(Xs(df)) - p.x,
           p.y - MinOf(Ys(df)), MaxOf(Ys(df)) - p.y})

\* the points of the table within 2 m of an edge of its bounding box
EdgePoints(df) == {p \in DOMAIN df : EdgeDistance(df, p) <= 2 * Metre}

\* the dose rate is above the Public limit 0.5
AbovePublic(d) == d.cls = "fin" /\ d.v > SCALE \div 2

----------------------------------------------------------------------------
(* The interpolated map                                                    *)

MapCalled == call.op = "create_interpolated_map"

\* C12: for each of the four selectable methods linear, cubic, nearest and
\* idw, create_interpolated_map given at least 3 non-collinear measurement
\* points returns a grid in which no cell is nan.
C12_NoNanCellForAnyMethod ==
    (/\ MapCalled
     /\ call.method \in SelectableMethods
     /\ ~Degenerate(DOMAIN call.measurements_df)) =>
        /\ ret.kind = "grid"
        /\ \A c \in DOMAIN ret.grid_dose : ret.grid_dose[c].cls = "fin"

\* C13: create_interpolated_map called with fewer than 3 measurement points,
\* or with points that are all collinear, fails with an error for every
\* interpolation method and returns no grid.
C13_DegenerateInputFails ==
    (MapCalled /\ Degenerate(DOMAIN call.measurements_df)) =>
        ret.kind = "raise"

\* ---------------------------------------------------------------------------
\* C21: determinism of the compliance report
\* ---------------------------------------------------------------------------

\* the report the same call returns when the clock reads now and the
\* mapper's annual worker limit is worker_limit: everything the caller
\* passes (table, area name, occupancy hours, standard) is as in the call
ReportAt(worker_limit, now) ==
    generate_compliance_report(Mapper(worker_limit), call.dose_rate,
                               call.area_name, call.occupancy_hours, now)

\* C21: generate_compliance_report is deterministic: a second call with the
\* same measurement table, area name, occupancy hours and standard returns
\* the same report text as the first one, whenever it is made and whatever
\* else differs between the two calls.
C21_SameInputsSameReport ==
    ReportWritten =>
        \A w \in WorkerLimitInputs, now \in ClockInputs : ReportAt(w, now) = ret

\* ---------------------------------------------------------------------------
\* C22: what the nearest-neighbour back-fill changes
\* ---------------------------------------------------------------------------

\* a grid came back from the linear or the cubic method (the primary methods
\* that leave the cells outside the convex hull of the points undefined)
HullMapReturned ==
    /\ MapCalled
    /\ call.method \in {"linear", "cubic"}
    /\ ret.kind = "grid"

\* what the primary method gives at the node of cell c
PrimaryAt(c) ==
    LinearND(call.measurements_df, Node(ret.grid_x, ret.grid_y, c))

\* the nearest-neighbour estimates at the node of cell c: the dose of a
\* measurement point at the least distance (more than one on a tie)
NearestEstimates(c) ==
    LET df == call.measurements_df
        p  == Node(ret.grid_x, ret.grid_y, c)
    IN  {df[q] : q \in {q \in DOMAIN df :
                          \A o \in DOMAIN df : Dist2(q, p) <= Dist2(o, p)}}

\* C22: in create_interpolated_map, when the primary interpolation leaves
\* cells undefined, exactly those cells hold the nearest-neighbour estimate
\* from the same measurement points, and every cell the primary method
\* defined keeps its primary value.
C22_OnlyUndefinedCellsFilled ==
    HullMapReturned =>
        \A c \in DOMAIN ret.grid_dose :
            IF PrimaryAt(c).cls = "nan"
              THEN ret.grid_dose[c] \in NearestEstimates(c)
              ELSE ret.grid_dose[c] = PrimaryAt(c)

\* a returned grid with both kinds of cell: one the primary method left
\* undefined, and one it defined with a value that is not a nearest estimate
C22_Witness ==
    /\ HullMapReturned
    /\ \E c \in DOMAIN ret.grid_dose : PrimaryAt(c).cls = "nan"
    /\ \E c \in DOMAIN ret.grid_dose :
         /\ PrimaryAt(c).cls = "fin"
         /\ PrimaryAt(c) \notin NearestEstimates(c)

\* ---------------------------------------------------------------------------
\* C23: the report's band counts against classify_zone
\* ---------------------------------------------------------------------------

\* a report was written for a table whose dose rates are all numbers >= 0
CleanReportWritten ==
    /\ ReportWritten
    /\ \A i \in DOMAIN call.dose_rate :
         call.dose_rate[i].cls = "fin" /\ call.dose_rate[i].v >= 0

\* the measurement points classify_zone assigns to the band
PointsClassified(col, zone_name) ==
    {i \in DOMAIN col : classify_zone(col[i]).zone = zone_name}

\* C23: in generate_compliance_report, for a non-empty measurement set with
\* non-negative, non-nan dose rates, the four band counts sum to the number
\* of measurement points and each band's count is the number of points that
\* classify_zone assigns to that band.
C23_CountsAgreeWithClassifyZone ==
    CleanReportWritten =>
        /\ PointsLine("Public").count + PointsLine("Supervised").count
             + PointsLine("Controlled").count + PointsLine("Restricted").count
             = Len(call.dose_rate)
        /\ \A z \in Zones :
             PointsLine(z).count = Cardinality(PointsClassified(call.dose_rate, z))

\* three points on and around the band limits: 0.3 is Public, 0.5 (the
\* Public limit itself) is Supervised and 7.5 (the Supervised limit itself)
\* is Controlled
C23_Witness ==
    /\ CleanReportWritten
    /\ call.dose_rate = <<Fin((3 * SCALE) \div 10), Fin(SCALE \div 2),
                          Fin((15 * SCALE) \div 2)>>
    /\ PointsLine("Public").count = 1
    /\ PointsLine("Supervised").count = 1
    /\ PointsLine("Controlled").count = 1
    /\ PointsLine("Restricted").count = 0

\* ---------------------------------------------------------------------------
\* C24: the mapper and the remediation step of the dashboard script
\* ---------------------------------------------------------------------------

\* the run has loaded a table and has reached the compliance report call of
\* the remediation block
ReportStepReached ==
    /\ call.op = "app"
    /\ call.step = "remediation_plan"
    /\ ~call.is_none

\* C24: in the dashboard script, for every loaded measurement table (a table
\* of fewer than 3 rows included), the RadiationZoneMapper instance has been
\* constructed when the remediation step calls generate_compliance_report on
\* it: the report step is never reached with the mapper undefined.
C24_MapperBoundAtReportStep ==
    ReportStepReached =>
        /\ "mapper" \in call.names
        /\ ret # Raise("NameError: mapper")

\* ---------------------------------------------------------------------------
\* C25: required_thickness and a material the catalogue does not hold
\* ---------------------------------------------------------------------------

\* C25: required_thickness called with a material key that is not in the
\* catalogue fails with the unknown-material error for every dose pair, the
\* pairs with source_dose <= target_dose included: it never returns 0.0 for
\* an unregistered material.
C25_UnregisteredMaterialAlwaysFails ==
    (/\ call.op = "required_thickness"
     /\ call.material \notin MATERIAL_KEYS) =>
        /\ ret = Raise(UnknownMaterial)
        /\ ret # Value(0)

\* ---------------------------------------------------------------------------
\* C26: the boundary verdict against the zone classification
\* ---------------------------------------------------------------------------

\* the dashboard reported containment secure for a table that is not empty
SecureReported ==
    /\ ret.kind = "boundary"
    /\ ret.verdict = "CONTAINMENT SECURE"
    /\ DOMAIN call.measurements_df # {}

====
